---- MODULE Spec2Model ----
(***************************************************************************)
(* Model of check_projects.py: reconciliation of the project configuration *)
(* against the class list (check_config, split_projects) and aggregation   *)
(* of the per-project marks (get_marks, write_marks, write_feedback).      *)
(*                                                                         *)
(* Every command-line action is one sequential run over configuration     *)
(* read afresh, so each action of the model is one whole invocation: it    *)
(* reads the configuration variables and leaves the invocation's result    *)
(* (exception raised, report printed, files written, table returned) in    *)
(* `outcome`.                                                              *)
(*                                                                         *)
(* Strings that the code takes apart (member keys) are tuples of           *)
(* characters; a project's name is its position in the configuration       *)
(* mapping (names are unique, being the keys of a mapping, and the code    *)
(* walks the mapping in that order).                                       *)
(***************************************************************************)
EXTENDS Integers, Sequences, FiniteSets, TLC

VARIABLES student_data, projects, round_final, artifacts, action, outcome

vars == <<student_data, projects, round_final, artifacts, action, outcome>>

----------------------------------------------------------------------------
(* Bounds and input domains *)

MaxProjects == 3
MaxMarkedProjects == 2
MaxScore == 1

\* student ids of the class list
Logins == {<<"a">>, <<"b">>}
\* keys a project's `members` mapping may use
MemberKeys == Logins \cup {<<"a", "@", "x">>}
CohortTypes == {"UG", "PGT"}

MARK_CATEGORIES ==
    {"Questions", "Analysis", "Results", "Readability", "Writing",
     "Reproducibility"}

----------------------------------------------------------------------------
(* Helpers *)

RECURSIVE SetSum(_, _)
SetSum(S, f) ==
    IF S = {} THEN 0
    ELSE LET x == CHOOSE y \in S : TRUE IN f[x] + SetSum(S \ {x}, f)

\* m.split('@')[0]: the part of m before the first '@'
RECURSIVE split_at_first(_)
split_at_first(m) ==
    IF m = <<>> \/ Head(m) = "@" THEN <<>>
    ELSE <<Head(m)>> \o split_at_first(Tail(m))

member_logins(pconfig) == {split_at_first(m) : m \in DOMAIN pconfig.members}

\* get_class_list: the student table indexed by student id; the cohort
\* column defaults to 'UG' for everybody when the data has no such column.
get_class_list(sd) ==
    [id \in DOMAIN sd.rows |->
        [UGPG |-> IF sd.has_ugpg THEN sd.rows[id] ELSE "UG"]]

----------------------------------------------------------------------------
(* check_config *)

unknown_none(members, known_students) == {}

unknown_students(members, known_students) == members \ known_students

overlaps_never(all_members, members) == FALSE

overlaps(all_members, members) == (all_members \cap members) # {}

missing_none(known_students, all_members) == {}

missing_students(known_students, all_members) == known_students \ all_members

\* the loop of check_config from project i on; all_members holds the members
\* of the projects before i
RECURSIVE check_loop(_, _, _, _)
check_loop(projs, known_students, i, all_members) ==
    IF i > Len(projs)
    THEN [error |-> "none", name |-> 0, ids |-> {},
          all_members |-> all_members]
    ELSE LET members == member_logins(projs[i])
             unknown == unknown_students(members, known_students)
         IN  IF unknown # {}
             THEN [error |-> "UnknownStudents", name |-> i, ids |-> unknown,
                   all_members |-> all_members]
             ELSE IF overlaps(all_members, members)
             THEN [error |-> "Overlap", name |-> i, ids |-> {},
                   all_members |-> all_members]
             ELSE check_loop(projs, known_students, i + 1,
                             all_members \cup members)

check_config(sd, projs, write_missing) ==
    LET class_list == get_class_list(sd)
        known_students == DOMAIN class_list
        r == check_loop(projs, known_students, 1, {})
        missing == missing_students(known_students, r.all_members)
        mdf == [id \in missing |-> class_list[id]]
    IN  IF r.error # "none"
        THEN [error |-> r.error, name |-> r.name, ids |-> r.ids,
              printed |-> FALSE, mdf |-> <<>>, files |-> {}]
        ELSE [error |-> "none", name |-> 0, ids |-> {},
              printed |-> TRUE, mdf |-> mdf,
              files |-> IF write_missing THEN {"missing.csv"} ELSE {}]

----------------------------------------------------------------------------
(* split_projects *)

\* the project names appended to project_lists[t] by the loop
appended(class_list, projs, t) ==
    LET type_list == {id \in DOMAIN class_list : class_list[id].UGPG = t}
    IN  {i \in 1..Len(projs) : (member_logins(projs[i]) \cap type_list) # {}}

keep_pgt(pgt, ug) == pgt

\* set(project_lists['PGT']).difference(project_lists['UG'])
remove_ug(pgt, ug) == pgt \ ug

\* A sorted list of distinct names is given by its set, so the final lists
\* are kept as sets of names.  Indexing project_lists by 'PGT' or 'UG' is a
\* KeyError when that type does not occur in the class list.
split_projects(sd, projs) ==
    LET class_list == get_class_list(sd)
        types == {class_list[id].UGPG : id \in DOMAIN class_list}
        project_lists == [t \in types |-> appended(class_list, projs, t)]
        member_counts ==
            [i \in 1..Len(projs) |-> Cardinality(member_logins(projs[i]))]
        final_lists ==
            [t \in types |->
                IF t = "PGT"
                THEN remove_ug(project_lists["PGT"], project_lists["UG"])
                ELSE project_lists[t]]
    IN  IF "PGT" \notin types \/ "UG" \notin types
        THEN [error |-> "KeyError", project_lists |-> <<>>, report |-> <<>>]
        ELSE [error |-> "none", project_lists |-> final_lists,
              report |-> [t \in types |->
                            [n_projects |-> Cardinality(final_lists[t]),
                             n_students |->
                                SetSum(final_lists[t], member_counts)]]]

----------------------------------------------------------------------------
(* get_marks, write_marks, get_member2project, write_feedback *)

EmptyFcn == [x \in {} |-> 0]

\* columns averaged into the final mark, with Contribution added
mean_columns_with_contribution ==
    {"Presentation"} \cup MARK_CATEGORIES \cup {"Contribution"}

\* ('Presentation',) + MARK_CATEGORIES
mean_columns == {"Presentation"} \cup MARK_CATEGORIES

\* the class list as get_marks starts with it: no mark column yet.  A cell
\* that holds no value (NaN) is a column absent from the row's `marks`.
marks_class_list(sd) ==
    LET class_list == get_class_list(sd)
    IN  [id \in DOMAIN class_list |->
            [UGPG |-> class_list[id].UGPG, marks |-> EmptyFcn]]

\* marks = {'Project name': name, 'Presentation': ...}; marks.update(proj_marks)
project_marks(name, pconfig, proj_marks) ==
    proj_marks @@ [c \in {"Project name", "Presentation"} |->
                     IF c = "Project name" THEN name ELSE pconfig.presentation]

\* every row gets the weight of one and the same member of the project
member_marks_shared(marks, pconfig, member) ==
    LET one == CHOOSE m \in DOMAIN pconfig.members :
                  \A o \in DOMAIN pconfig.members :
                      pconfig.members[m] >= pconfig.members[o]
    IN  [c \in {"Contribution"} |-> pconfig.members[one]] @@ marks

\* marks['Contribution'] = contrib_score, for the member being written
member_marks(marks, pconfig, member) ==
    [c \in {"Contribution"} |-> pconfig.members[member]] @@ marks

\* class_list.loc[member, list(marks)] = marks: the cells of the row are
\* overwritten; a label that is not in the index is added as a new row
\* (setting with enlargement), whose other columns hold no value.
set_row(table, member, marks) ==
    [k \in DOMAIN table \cup {member} |->
        IF k # member THEN table[k]
        ELSE IF member \in DOMAIN table
             THEN [table[member] EXCEPT !.marks = marks @@ @]
             ELSE [UGPG |-> "NaN", marks |-> marks]]

RECURSIVE write_members(_, _, _, _)
write_members(table, marks, pconfig, todo) ==
    IF todo = {} THEN table
    ELSE LET member == CHOOSE m \in todo : TRUE
         IN  write_members(
                 set_row(table, member, member_marks(marks, pconfig, member)),
                 marks, pconfig, todo \ {member})

\* the skipped project's members lose their rows
skip_project_drop(st, name, pconfig) ==
    [st EXCEPT !.skipped = Append(@, name),
               !.table = [k \in DOMAIN st.table \ DOMAIN pconfig.members |->
                            st.table[k]]]

\* print(msg); continue
skip_project(st, name, pconfig) == [st EXCEPT !.skipped = Append(@, name)]

raise_on_missing_never(allow_missing) == FALSE

\* if not allow_missing: raise RuntimeError(msg)
raise_on_missing(allow_missing) == ~allow_missing

\* the loop of get_marks from project i on; `written` records the row labels
\* the loop has assigned to
RECURSIVE marks_loop(_, _, _, _, _)
marks_loop(projs, arts, allow_missing, i, st) ==
    IF i > Len(projs) THEN st
    ELSE LET pconfig == projs[i]
             proj_marks == arts[i]
         IN  IF ~proj_marks.found
             THEN IF raise_on_missing(allow_missing)
                  THEN [st EXCEPT !.error = "MissingProjectMarks", !.name = i]
                  ELSE marks_loop(projs, arts, allow_missing, i + 1,
                                  skip_project(st, i, pconfig))
             ELSE IF DOMAIN proj_marks.marks # MARK_CATEGORIES
             THEN [st EXCEPT !.error = "AssertionError", !.name = i]
             ELSE LET marks == project_marks(i, pconfig, proj_marks.marks)
                  IN  marks_loop(projs, arts, allow_missing, i + 1,
                        [st EXCEPT
                           !.table = write_members(@, marks, pconfig,
                                                   DOMAIN pconfig.members),
                           !.written = @ \cup DOMAIN pconfig.members,
                           !.columns = @ \/ (DOMAIN pconfig.members # {}),
                           !.processed = Append(@, i)])

\* DataFrame.mean(axis=1) skips the cells without a value; the mean is kept
\* as <<sum, count>>, and <<0, 0>> is the NaN of a row with no value at all
row_mean(row, columns) ==
    LET present == columns \cap DOMAIN row.marks
    IN  <<SetSum(present, row.marks), Cardinality(present)>>

\* round half to even, as numpy does
round_mean(m) ==
    IF m[2] = 0 THEN m
    ELSE LET q == m[1] \div m[2]
             r == m[1] % m[2]
         IN  IF 2 * r < m[2] THEN <<q, 1>>
             ELSE IF 2 * r > m[2] THEN <<q + 1, 1>>
             ELSE IF q % 2 = 0 THEN <<q, 1>> ELSE <<q + 1, 1>>

\* class_list[class_list['UGPG'] == student_type]; no filter for None or ''
filter_type(table, student_type) ==
    IF student_type = "" THEN table
    ELSE [k \in {id \in DOMAIN table : table[id].UGPG = student_type} |->
             table[k]]

\* Selecting the mark columns is a KeyError when no project wrote them.
get_marks(sd, projs, arts, rounding, student_type, allow_missing) ==
    LET st == marks_loop(projs, arts, allow_missing, 1,
                  [error |-> "none", name |-> 0,
                   table |-> marks_class_list(sd), written |-> {},
                   columns |-> FALSE,
                   processed |-> <<>>, skipped |-> <<>>])
        averaged ==
            [k \in DOMAIN st.table |->
                [UGPG |-> st.table[k].UGPG, marks |-> st.table[k].marks,
                 final |-> IF rounding
                           THEN round_mean(row_mean(st.table[k], mean_columns))
                           ELSE row_mean(st.table[k], mean_columns)]]
    IN  IF st.error # "none"
        THEN [st EXCEPT !.table = EmptyFcn] @@ [returned |-> FALSE]
        ELSE IF ~st.columns
        THEN [st EXCEPT !.error = "KeyError", !.table = EmptyFcn]
                @@ [returned |-> FALSE]
        ELSE [st EXCEPT !.table = filter_type(averaged, student_type)]
                @@ [returned |-> TRUE]

\* f"{marks_froot}{suffix}.csv" with the default root
marks_fname(student_type) == <<"project_marks", student_type>>

write_marks(sd, projs, arts, rounding, student_type, allow_missing) ==
    LET r == get_marks(sd, projs, arts, rounding, student_type, allow_missing)
    IN  r @@ [files |-> IF r.returned THEN {marks_fname(student_type)} ELSE {},
              student_type |-> student_type,
              allow_missing |-> allow_missing]

\* recoder[m] = p: the last project that lists the key m
get_member2project(projs) ==
    [m \in UNION {DOMAIN projs[i].members : i \in 1..Len(projs)} |->
        CHOOSE i \in 1..Len(projs) :
            /\ m \in DOMAIN projs[i].members
            /\ \A j \in (i + 1)..Len(projs) : m \notin DOMAIN projs[j].members]

\* the rows for which feedback is written, with their project
write_feedback(sd, projs, arts, rounding, student_type) ==
    LET r == get_marks(sd, projs, arts, rounding, student_type, FALSE)
        m2proj == get_member2project(projs)
    IN  r @@ [feedback |-> [user \in DOMAIN r.table \cap DOMAIN m2proj |->
                              m2proj[user]],
              student_type |-> student_type,
              allow_missing |-> FALSE]

----------------------------------------------------------------------------
(* Configurations *)

StudentData ==
    UNION {{[has_ugpg |-> TRUE, rows |-> r] : r \in [S -> CohortTypes]}
           \cup {[has_ugpg |-> FALSE, rows |-> [id \in S |-> "-"]]}
           : S \in SUBSET Logins}

SeqsUpTo(S, n) == UNION {[1..k -> S] : k \in 0..n}

\* members given as bare keys: every weight 1
ReconProject ==
    {[members |-> [m \in K |-> 1], presentation |-> 0] : K \in SUBSET MemberKeys}

InitRecon ==
    /\ student_data \in StudentData
    /\ projects \in SeqsUpTo(ReconProject, MaxProjects)
    /\ round_final = FALSE
    /\ artifacts = [i \in 1..Len(projects) |-> [found |-> FALSE, marks |-> EmptyFcn]]
    /\ action = "none"
    /\ outcome = <<>>

Check ==
    /\ action = "none"
    /\ action' = "check"
    /\ outcome' = check_config(student_data, projects, TRUE)
    /\ UNCHANGED <<student_data, projects, round_final, artifacts>>

SplitProjects ==
    /\ action = "none"
    /\ action' = "split-projects"
    /\ outcome' = split_projects(student_data, projects)
    /\ UNCHANGED <<student_data, projects, round_final, artifacts>>

NextRecon == Check \/ SplitProjects

SpecRecon == InitRecon /\ [][NextRecon]_vars

----------------------------------------------------------------------------
(* Properties of check_config and split_projects (SpecRecon) *)

known_ids == DOMAIN get_class_list(student_data)

Names == 1..Len(projects)

AllKnown == \A i \in Names : member_logins(projects[i]) \subseteq known_ids

Share(i, j) == (member_logins(projects[i]) \cap member_logins(projects[j])) # {}

\* project j shares a member with a project listed before it
OverlapsEarlier(j) == \E i \in 1..(j - 1) : Share(i, j)

HasUnknown(j) == ~(member_logins(projects[j]) \subseteq known_ids)

First(P(_)) == CHOOSE j \in Names : P(j) /\ \A i \in 1..(j - 1) : ~P(i)

\* C1: when every member of every project is in the class list and no two
\* projects share a member, check_config raises nothing and the students it
\* prints and writes to missing.csv are exactly the class-list ids that are
\* members of no project.
C1_MissingIsComplement ==
    (action = "check" /\ AllKnown /\ \A j \in Names : ~OverlapsEarlier(j))
        => /\ outcome.error = "none"
           /\ outcome.printed
           /\ outcome.files = {"missing.csv"}
           /\ DOMAIN outcome.mdf =
                known_ids \ UNION {member_logins(projects[i]) : i \in Names}

C1_Witness ==
    /\ action = "check"
    /\ Len(projects) >= 2
    /\ AllKnown
    /\ \A j \in Names : ~OverlapsEarlier(j)
    /\ \E i \in Names : member_logins(projects[i]) # {}
    /\ outcome.error = "none"
    /\ DOMAIN outcome.mdf # {}

\* C2: when all members are known and two projects share a member,
\* check_config raises the overlap error; the project it names is a project
\* that shares a member with one listed before it (the first such project),
\* and no missing-student report is printed or written.
C2_OverlapNamesLater ==
    (action = "check" /\ AllKnown /\ \E j \in Names : OverlapsEarlier(j))
        => /\ outcome.error = "Overlap"
           /\ outcome.name = First(OverlapsEarlier)
           /\ OverlapsEarlier(outcome.name)
           /\ ~outcome.printed
           /\ outcome.files = {}

C2_Witness ==
    /\ action = "check"
    /\ AllKnown
    /\ Len(projects) = 3
    /\ Share(1, 3)
    /\ ~Share(1, 2)
    /\ outcome.error = "Overlap"
    /\ outcome.name = 3

\* C3 as claimed: whenever some project has a member that is not in the
\* class list, check_config raises the unknown-student error, naming a
\* project with such members and exactly that project's unknown ids.
C3_UnknownAlwaysReported ==
    (action = "check" /\ \E j \in Names : HasUnknown(j))
        => /\ outcome.error = "UnknownStudents"
           /\ outcome.name \in Names
           /\ HasUnknown(outcome.name)
           /\ outcome.ids = member_logins(projects[outcome.name]) \ known_ids
           /\ ~outcome.printed

\* C3 amended: whenever some project has a member that is not in the class
\* list, check_config fails without printing or writing the report.  It
\* raises the unknown-student error naming the first such project and
\* exactly that project's unknown ids, unless a project listed before it
\* shares a member with a still earlier project: then it raises the overlap
\* error naming the first project that does.
C3_FirstFailureReported ==
    (action = "check" /\ \E j \in Names : HasUnknown(j))
        => LET u == First(HasUnknown)
           IN  /\ ~outcome.printed
               /\ outcome.files = {}
               /\ IF \E k \in 1..(u - 1) : OverlapsEarlier(k)
                  THEN /\ outcome.error = "Overlap"
                       /\ outcome.name = First(OverlapsEarlier)
                  ELSE /\ outcome.error = "UnknownStudents"
                       /\ outcome.name = u
                       /\ outcome.ids =
                            member_logins(projects[u]) \ known_ids

C3_Witness ==
    /\ action = "check"
    /\ Len(projects) = 3
    /\ ~HasUnknown(1)
    /\ HasUnknown(2)
    /\ OverlapsEarlier(2)
    /\ outcome.error = "UnknownStudents"
    /\ outcome.name = 2
    /\ outcome.ids # {}

\* some member of project i is a student of cohort type t
HasType(i, t) ==
    \E m \in member_logins(projects[i]) :
        m \in known_ids /\ get_class_list(student_data)[m].UGPG = t

\* C4: in the lists split_projects prints, a project is in the UG list
\* exactly when one of its members is UG, and in the PGT list exactly when
\* one of its members is PGT and none is UG; so a project with members of
\* both types is in the UG list only and the two lists are disjoint.
C4_CohortLists ==
    (action = "split-projects" /\ outcome.error = "none")
        => /\ \A i \in Names :
                /\ i \in outcome.project_lists["UG"] <=> HasType(i, "UG")
                /\ i \in outcome.project_lists["PGT"]
                      <=> (HasType(i, "PGT") /\ ~HasType(i, "UG"))
           /\ outcome.project_lists["UG"] \cap outcome.project_lists["PGT"] = {}

C4_Witness ==
    /\ action = "split-projects"
    /\ outcome.error = "none"
    /\ \E i \in Names :
          /\ HasType(i, "UG")
          /\ HasType(i, "PGT")
          /\ i \in outcome.project_lists["UG"]
          /\ i \notin outcome.project_lists["PGT"]
    /\ outcome.project_lists["PGT"] # {}

\* C5: for every non-empty class list, also one with a single cohort type,
\* split_projects completes and reports for each cohort type of the class
\* list the number of projects in its list and the sum of their member
\* counts.
C5_SplitAlwaysReports ==
    (action = "split-projects" /\ known_ids # {})
        => /\ outcome.error = "none"
           /\ \A t \in {get_class_list(student_data)[id].UGPG : id \in known_ids} :
                /\ outcome.report[t].n_projects =
                      Cardinality(outcome.project_lists[t])
                /\ outcome.report[t].n_students =
                      SetSum(outcome.project_lists[t],
                             [i \in Names |->
                                Cardinality(member_logins(projects[i]))])

----------------------------------------------------------------------------
(* Configurations for the marks actions *)

\* projects with members of different and of equal weights, with a member
\* key that has an '@' part, and with the lowest and the highest
\* presentation score
MarkedProject ==
    {[members |-> (<<"a">> :> 1) @@ (<<"b">> :> 2), presentation |-> 0],
     [members |-> (<<"a">> :> 2), presentation |-> MaxScore],
     [members |-> (<<"b">> :> 1), presentation |-> MaxScore],
     [members |-> (<<"a", "@", "x">> :> 1), presentation |-> 0]}

\* what get_proj_marks finds for a project: nothing, a record over the
\* fixed categories, or a record over another category set
MarkRecords ==
    {[c \in MARK_CATEGORIES |-> IF c = "Questions" THEN v ELSE v + 1]
        : v \in 0..MaxScore}

BadRecords ==
    {[c \in (MARK_CATEGORIES \ {"Writing"}) \cup {"Bonus"} |-> 0]}

Artifacts ==
    {[found |-> FALSE, marks |-> EmptyFcn]}
    \cup {[found |-> TRUE, marks |-> m] : m \in MarkRecords \cup BadRecords}

MarkedStudentData ==
    {[has_ugpg |-> TRUE,
      rows |-> [id \in S |-> IF id = <<"a">> THEN "UG" ELSE "PGT"]]
        : S \in SUBSET Logins}

StudentTypeArgs == {"", "UG", "PGT"}

InitMarks ==
    /\ student_data \in MarkedStudentData
    /\ projects \in SeqsUpTo(MarkedProject, MaxMarkedProjects)
    /\ round_final \in BOOLEAN
    /\ artifacts \in [1..Len(projects) -> Artifacts]
    /\ action = "none"
    /\ outcome = <<>>

WriteMarks ==
    \E student_type \in StudentTypeArgs, allow_missing \in BOOLEAN :
        /\ action = "none"
        /\ action' = "write-marks"
        /\ outcome' = write_marks(student_data, projects, artifacts,
                                  round_final, student_type, allow_missing)
        /\ UNCHANGED <<student_data, projects, round_final, artifacts>>

WriteFeedback ==
    \E student_type \in StudentTypeArgs :
        /\ action = "none"
        /\ action' = "write-feedback"
        /\ outcome' = write_feedback(student_data, projects, artifacts,
                                     round_final, student_type)
        /\ UNCHANGED <<student_data, projects, round_final, artifacts>>

NextMarks == WriteMarks \/ WriteFeedback

SpecMarks == InitMarks /\ [][NextMarks]_vars

----------------------------------------------------------------------------
(* Properties of get_marks, write_marks and write_feedback (SpecMarks) *)

Missing(i) == ~artifacts[i].found

BadRecord(i) ==
    artifacts[i].found /\ DOMAIN artifacts[i].marks # MARK_CATEGORIES

Range(q) == {q[k] : k \in 1..Len(q)}

\* no project after i that was processed lists the member key m
LastListing(i, m) ==
    \A j \in Range(outcome.processed) :
        j > i => m \notin DOMAIN projects[j].members

InProcessed(m) ==
    \E j \in Range(outcome.processed) : m \in DOMAIN projects[j].members

Passes(m) ==
    /\ m \in known_ids
    /\ \/ outcome.student_type = ""
       \/ get_class_list(student_data)[m].UGPG = outcome.student_type

C7_FirstMissingAlwaysNamed ==
    (action = "write-marks" /\ ~outcome.allow_missing
        /\ \E i \in Names : Missing(i))
        => /\ outcome.error = "MissingProjectMarks"
           /\ outcome.name = First(Missing)
           /\ ~outcome.returned
           /\ outcome.files = {}

\* C7 amended: in strict mode, when some project has no artifact, get_marks
\* processes the projects in configuration order and fails at the first
\* project that has no artifact or whose record has a wrong category set:
\* with the missing-marks error naming it in the first case (so whenever no
\* earlier record is wrong), with the assertion failure in the second.  No
\* project from that one on is processed, no table is returned and
\* write_marks writes no file.
C7_FailsAtFirstMissingOrBad ==
    (action = "write-marks" /\ ~outcome.allow_missing
        /\ \E i \in Names : Missing(i))
        => LET m == First(Missing)
           IN  /\ IF \E b \in 1..(m - 1) : BadRecord(b)
                  THEN /\ outcome.error = "AssertionError"
                       /\ outcome.name = First(BadRecord)
                  ELSE /\ outcome.error = "MissingProjectMarks"
                       /\ outcome.name = m
               /\ outcome.processed =
                    [k \in 1..(outcome.name - 1) |-> k]
               /\ outcome.skipped = <<>>
               /\ ~outcome.returned
               /\ outcome.table = EmptyFcn
               /\ outcome.files = {}

C7_Witness ==
    /\ action = "write-marks"
    /\ ~outcome.allow_missing
    /\ Len(projects) = 2
    /\ ~Missing(1)
    /\ Missing(2)
    /\ outcome.error = "MissingProjectMarks"
    /\ outcome.name = 2
    /\ outcome.processed = <<1>>

\* C8: in the returned table, the row of every member of a processed
\* project (the last processed project listing the member) holds that
\* project's name, its Presentation score, the six scores of its mark
\* record, and as Contribution the weight configured for that very member.
C8_RowHoldsOwnContribution ==
    (action = "write-marks" /\ outcome.returned)
        => \A i \in Range(outcome.processed) :
              \A m \in DOMAIN projects[i].members :
                  (m \in DOMAIN outcome.table /\ LastListing(i, m))
                      => LET row == outcome.table[m].marks
                         IN  /\ DOMAIN row = {"Project name", "Presentation",
                                              "Contribution"}
                                                \cup MARK_CATEGORIES
                             /\ row["Project name"] = i
                             /\ row["Presentation"] = projects[i].presentation
                             /\ \A c \in MARK_CATEGORIES :
                                    row[c] = artifacts[i].marks[c]
                             /\ row["Contribution"] = projects[i].members[m]

C8_Witness ==
    /\ action = "write-marks"
    /\ outcome.returned
    /\ \E i \in Range(outcome.processed) :
          \E m, o \in DOMAIN projects[i].members :
              /\ projects[i].members[m] # projects[i].members[o]
              /\ m \in DOMAIN outcome.table
              /\ o \in DOMAIN outcome.table
              /\ outcome.table[m].marks["Contribution"] = projects[i].members[m]
              /\ outcome.table[o].marks["Contribution"] = projects[i].members[o]

\* C9: for every row of the returned table that a processed project wrote,
\* the aggregate before rounding is the mean of seven values: seven times
\* it is Presentation plus the six category scores, whatever the row's
\* Contribution; with rounding on it is the integer nearest to that mean.
C9_AggregateIsMeanOfSeven ==
    (action = "write-marks" /\ outcome.returned)
        => \A m \in DOMAIN outcome.table :
              "Project name" \in DOMAIN outcome.table[m].marks
                  => LET row == outcome.table[m].marks
                         total == row["Presentation"]
                                    + SetSum(MARK_CATEGORIES, row)
                         final == outcome.table[m].final
                     IN  /\ "Contribution" \in DOMAIN row
                         /\ ~round_final => final = <<total, 7>>
                         /\ round_final
                              => /\ final[2] = 1
                                 /\ 2 * (7 * final[1] - total) <= 7
                                 /\ 2 * (total - 7 * final[1]) <= 7

C9_Witness ==
    /\ action = "write-marks"
    /\ outcome.returned
    /\ ~round_final
    /\ \E m \in DOMAIN outcome.table :
          /\ "Project name" \in DOMAIN outcome.table[m].marks
          /\ outcome.table[m].marks["Contribution"] = 2
          /\ outcome.table[m].marks["Presentation"] = MaxScore
          /\ outcome.table[m].final[2] = 7
          /\ outcome.table[m].final[1] > 1

\* C10: the member ids check_config validates are the row labels get_marks
\* writes to and the keys get_member2project maps; so when check_config
\* accepts the configuration, get_marks writes only to rows of the class
\* list and write_feedback only serves students of the class list.
C10_SameMemberIds ==
    (action \in {"write-marks", "write-feedback"}
        /\ check_config(student_data, projects, TRUE).error = "none"
        /\ outcome.returned)
        => /\ outcome.written =
                UNION {member_logins(projects[i]) :
                          i \in Range(outcome.processed)}
           /\ outcome.written \subseteq known_ids
           /\ DOMAIN get_member2project(projects) =
                UNION {member_logins(projects[i]) : i \in Names}
           /\ action = "write-feedback"
                => DOMAIN outcome.feedback \subseteq known_ids

====
